---- MODULE Spec2Model ----
(***************************************************************************)
(* Model of scripts/run_agent.py (the validation / patch / verification    *)
(* run) and of scripts/tools.py (the file tools).                          *)
(*                                                                         *)
(* A source text is a sequence of tokens.  "NL" is the newline character;  *)
(* every other token stands for the whole content of one non-empty line:   *)
(*   "H"   a line that starts with "class ImportItem" (column 0)           *)
(*   "HI"  an indented line containing "class ImportItem"                  *)
(*   "B"   an indented line of a class body                                *)
(*   "T"   a statement at column 0                                         *)
(*   "M"   an indented line containing "find_staged_or_pending"            *)
(*   "W"   a line of spaces only                                           *)
(* Two specifications of run_agent.py are given: Spec is one run of main() *)
(* and SpecPatch is a sequence of apply_patch() calls on a repository.     *)
(* SpecTools is a sequence of edit_file() calls on one file.               *)
(***************************************************************************)
EXTENDS Integers, Sequences, FiniteSets

VARIABLES
    repo,           \* working tree: path of an imports.py -> File
    tree0,          \* the working tree when the process started
    writes,         \* path -> number of write_text calls on it
    agent_log,      \* AGENT_LOG: the events appended by log_agent
    pc,             \* position of main()
    pre,            \* what run_validation("pre_validation") produced
    post,           \* what run_validation("post_validation") produced
    fix_applied,    \* main's local fix_applied, read only after the patch step
    changes_patch,  \* CHANGES_PATCH: the paths the captured diff names
    results,        \* content of the results file, NoValue while not written
    exit_status,    \* exit status of the process, NotExited while it runs
    cmds,           \* the commands handed to run(), in order
    calls,          \* SpecPatch: one record per apply_patch call
    file_text,      \* SpecTools: content of the file edit_file works on
    tool_call       \* SpecTools: the last edit_file call and its outcome

vars == <<repo, tree0, writes, agent_log, pc, pre, post, fix_applied,
          changes_patch, results, exit_status, cmds, calls, file_text,
          tool_call>>

runVars == <<pc, pre, post, fix_applied, changes_patch, results,
             exit_status, cmds>>
toolVars == <<file_text, tool_call>>

(***************************************************************************)
(* Bounds of the model.                                                    *)
(***************************************************************************)
MaxLines == 2       \* lines of an imports.py in a run of main()
MaxPatchLines == 3  \* lines of an imports.py in SpecPatch
MaxCalls == 2       \* apply_patch calls in SpecPatch
MaxOut == 2         \* output lines of one test execution
MaxText == 4        \* characters of the file edit_file works on
MaxArg == 2         \* characters of edit_file's old and new

None == "None"                \* no path
NoValue == [absent |-> TRUE]  \* a result not produced yet
NotExited == 0 - 1            \* the process is still running
Unreadable == <<"UNREADABLE">>   \* read_text raises on this file

(***************************************************************************)
(* Texts.                                                                  *)
(***************************************************************************)
NL == "NL"
LineTokens == {"H", "HI", "B", "T", "M", "W"}
LineSet == {<<>>} \cup {<<t>> : t \in LineTokens}

RECURSIVE SeqsUpTo(_, _)
SeqsUpTo(S, n) ==
    IF n = 0 THEN {<<>>}
    ELSE LET shorter == SeqsUpTo(S, n - 1)
         IN  shorter \cup {Append(s, x) : s \in shorter, x \in S}

\* "\n".join(lines)
RECURSIVE Join(_)
Join(lines) ==
    IF Len(lines) = 0 THEN <<>>
    ELSE IF Len(lines) = 1 THEN lines[1]
    ELSE lines[1] \o <<NL>> \o Join(Tail(lines))

\* str.splitlines(): a final newline does not open a further line
RECURSIVE SplitFrom(_, _, _)
SplitFrom(text, cur, acc) ==
    IF text = <<>> THEN (IF cur = <<>> THEN acc ELSE Append(acc, cur))
    ELSE IF Head(text) = NL THEN SplitFrom(Tail(text), <<>>, Append(acc, cur))
    ELSE SplitFrom(Tail(text), Append(cur, Head(text)), acc)

splitlines(text) == SplitFrom(text, <<>>, <<>>)

\* The texts of at most n lines, with and without a final newline.
Texts(n) ==
    {Join(ls) \o e : ls \in SeqsUpTo(LineSet, n), e \in {<<>>, <<NL>>}}

\* str.strip() of one line: a line of spaces only strips to the empty string
strip(line) ==
    IF \A i \in 1..Len(line) : line[i] = "W" THEN <<>> ELSE line

\* line.startswith("class ImportItem")
StartsWithHeader(line) == Len(line) > 0 /\ line[1] = "H"

\* "class ImportItem" in text
ContainsHeader(text) == \E i \in 1..Len(text) : text[i] \in {"H", "HI"}

\* "find_staged_or_pending" in text
ContainsMethod(text) == \E i \in 1..Len(text) : text[i] = "M"

\* PATCH_METHOD: a newline, "    @classmethod", the def line, seven body
\* lines; rstrip() removed the final newline.
PATCH_METHOD ==
    <<NL, "B", NL, "M", NL, "B", NL, "B", NL, "B", NL, "B", NL, "B",
      NL, "B", NL, "B">>

(***************************************************************************)
(* The repository.                                                         *)
(***************************************************************************)
\* repo.rglob("imports.py"), in the order the file system yields them
RglobOrder == <<"openlibrary/core/imports.py", "scripts/imports.py">>
Paths == {RglobOrder[i] : i \in DOMAIN RglobOrder}

\* The second imports.py of a repository is one of these.
SideFiles == {Unreadable, <<"T", NL>>, <<"H", NL, "B", NL>>}

Repos(n) ==
    {[p \in Paths |-> IF p = q THEN rich ELSE side] :
        q \in Paths, rich \in Texts(n), side \in SideFiles}

\* log_agent(event, **data): one more record in AGENT_LOG
log_agent(log, rec) == Append(log, rec)

\* find_imports_file: index in RglobOrder of the first readable file that
\* contains "class ImportItem"; 0 stands for the RuntimeError.
RECURSIVE FindFrom(_, _)
FindFrom(tree, i) ==
    IF i > Len(RglobOrder) THEN 0
    ELSE IF tree[RglobOrder[i]] # Unreadable
            /\ ContainsHeader(tree[RglobOrder[i]]) THEN i
    ELSE FindFrom(tree, i + 1)

find_imports_file(tree) == FindFrom(tree, 1)

\* for i, line in enumerate(lines): the first i (from 0) whose line starts
\* with the header; Len(lines) when there is none.
RECURSIVE HeaderFrom(_, _)
HeaderFrom(lines, i) ==
    IF i >= Len(lines) THEN Len(lines)
    ELSE IF StartsWithHeader(lines[i + 1]) THEN i
    ELSE HeaderFrom(lines, i + 1)

\* while insert_at < len(lines) and lines[insert_at].strip(): insert_at += 1
RECURSIVE ScanBody(_, _)
ScanBody(lines, insert_at) ==
    IF insert_at < Len(lines) /\ strip(lines[insert_at + 1]) # <<>>
    THEN ScanBody(lines, insert_at + 1)
    ELSE insert_at

\* lines.insert(at, x)
ListInsert(lines, at, x) ==
    SubSeq(lines, 1, at) \o <<x>> \o SubSeq(lines, at + 1, Len(lines))

\* A missing target taken for "nothing to do": no exception
NotFoundNoOp(same) == same

\* raise RuntimeError("ImportItem class not found"), through apply_patch
NotFound(same) == [same EXCEPT !.raised = "ImportItem class not found"]

\* The idempotency check with the test dropped: never "already present".
AlreadyPresentDropped(code) == FALSE

\* "find_staged_or_pending" in code
AlreadyPresent(code) == ContainsMethod(code)

\* apply_patch(repo) as a function of the working tree: the RuntimeError it
\* raises (None when it returns), what it returns, the tree and the log it
\* leaves, the file it wrote (None when it wrote nothing), the index of the
\* header line and the index it inserted at (both counted from 0).
apply_patch(tree, log) ==
    LET t == find_imports_file(tree)
        same == [raised |-> None, ret |-> FALSE, tree |-> tree, log |-> log,
                 wrote |-> None, insert_at |-> 0, header_at |-> 0]
    IN  IF t = 0
        THEN NotFound(same)
        ELSE
        LET target == RglobOrder[t]
            code == tree[target]
            lines == splitlines(code)
            i == HeaderFrom(lines, 0)
            at == ScanBody(lines, i + 1)
        IN  IF AlreadyPresent(code)
            THEN [same EXCEPT
                    !.log = log_agent(log, [event |-> "patch_skipped",
                                            reason |-> "already_present"])]
            ELSE IF i < Len(lines)
            THEN [raised |-> None, ret |-> TRUE,
                  tree |-> [tree EXCEPT ![target] =
                      Join(ListInsert(lines, at, PATCH_METHOD)) \o <<NL>>],
                  log |-> log_agent(log, [event |-> "patch_applied",
                                          file |-> target]),
                  wrote |-> target, insert_at |-> at, header_at |-> i]
            ELSE [same EXCEPT !.raised = "Failed to apply patch"]

CountWrite(w, path) ==
    IF path = None THEN w ELSE [w EXCEPT ![path] = w[path] + 1]

(***************************************************************************)
(* The test command and run_validation.                                    *)
(***************************************************************************)
\* One line of the test command's output: a line containing "FAILED", a
\* line containing "ERROR", any other line of pytest, or the shell's own
\* message ("python: not found", "Permission denied").
OutLines == {"FAILED", "ERROR", "PASSED"}
ShellMessage == "SHELL"

\* What run("python -m pytest ...", cwd=repo) can come to: pytest ran; the
\* shell could not start python (status 127 or 126, its message on stderr);
\* subprocess.run raised because cwd cannot be entered.
TestOutcomes ==
    {[kind |-> "ran", returncode |-> rc, out |-> o] :
        rc \in {0, 1}, o \in SeqsUpTo(OutLines, MaxOut)}
    \cup {[kind |-> "not_launched", returncode |-> rc, out |-> <<ShellMessage>>] :
        rc \in {126, 127}}
    \cup {[kind |-> "oserror", returncode |-> 0, out |-> <<>>]}

\* error_lines / error_count of run_validation
ErrorCount(out) ==
    Cardinality({i \in 1..Len(out) : out[i] \in {"FAILED", "ERROR"}})

PreReport(error_count) ==
    IF error_count > 0 THEN "PRE-VALIDATION ERRORS DETECTED"
    ELSE "NO ERRORS FOUND IN PRE-VALIDATION"

\* The post report with "tests already passing" decided by the count
\* before alone.
PostReportByPreAlone(previous_error_count, error_count) ==
    IF previous_error_count > 0 /\ error_count = 0
    THEN "ERRORS CLEARED IN POST-VALIDATION"
    ELSE IF previous_error_count = 0
    THEN "NO ERRORS TO CLEAR - TESTS ALREADY PASSING"
    ELSE "POST-VALIDATION ERRORS STILL PRESENT"

\* The headline of the agent report of the post_validation stage.
PostReport(previous_error_count, error_count) ==
    IF previous_error_count # 0 /\ previous_error_count > 0 /\ error_count = 0
    THEN "ERRORS CLEARED IN POST-VALIDATION"
    ELSE IF previous_error_count = 0 /\ error_count = 0
    THEN "NO ERRORS TO CLEAR - TESTS ALREADY PASSING"
    ELSE "POST-VALIDATION ERRORS STILL PRESENT"

\* run_validation on an execution that returned: what it writes to the
\* stage's log and returns.  launched is what happened, not what it reads.
run_validation(stage, o, previous_error_count) ==
    LET error_count == ErrorCount(o.out)
    IN  [stage |-> stage,
         exit_code |-> o.returncode,
         errors |-> error_count,
         report |-> IF stage = "pre_validation" THEN PreReport(error_count)
                    ELSE PostReport(previous_error_count, error_count),
         launched |-> o.kind = "ran"]

ValidationEvent(v) ==
    [event |-> "validation_complete", stage |-> v.stage,
     exit_code |-> v.exit_code, errors |-> v.errors]

\* run("git diff", cwd=repo).stdout: the files that differ from the
\* checkout the run started on.
GitDiff(tree) == {p \in Paths : tree[p] # tree0[p]}

\* The diff taken whatever apply_patch returned.
CaptureAlways(fix) == TRUE

\* if fix_applied:
CaptureDiff(fix) == fix

\* Results with post_errors copied from the count before the patch.
ResultsStalePost(pre_v, post_v, fix) ==
    [pre_exit |-> pre_v.exit_code, post_exit |-> post_v.exit_code,
     pre_errors |-> pre_v.errors, post_errors |-> pre_v.errors,
     fix_applied |-> fix]

\* Results with fix_applied derived from the validation instead of the
\* patch step.
ResultsFixFromValidation(pre_v, post_v, fix) ==
    [pre_exit |-> pre_v.exit_code, post_exit |-> post_v.exit_code,
     pre_errors |-> pre_v.errors, post_errors |-> post_v.errors,
     fix_applied |-> (post_v.errors = 0)]

\* The object main() writes to the results file.
MakeResults(pre_v, post_v, fix) ==
    [pre_exit |-> pre_v.exit_code, post_exit |-> post_v.exit_code,
     pre_errors |-> pre_v.errors, post_errors |-> post_v.errors,
     fix_applied |-> fix]

(***************************************************************************)
(* Spec: one run of main().                                                *)
(***************************************************************************)
\* AGENT_LOG as an earlier run may have left it.
StaleLogs == {<<>>, <<[event |-> "run_complete"]>>}

Init ==
    /\ repo \in Repos(MaxLines)
    /\ tree0 = repo
    /\ writes = [p \in Paths |-> 0]
    /\ agent_log \in StaleLogs
    /\ pc = "start"
    /\ pre = NoValue /\ post = NoValue /\ fix_applied = FALSE
    /\ changes_patch = {} /\ results = NoValue /\ exit_status = NotExited
    /\ cmds = <<>>
    /\ calls = <<>>
    /\ file_text = <<>> /\ tool_call = NoValue

\* An exception nobody catches ends the process with status 1.
Abort ==
    /\ pc' = "aborted"
    /\ exit_status' = 1

\* main() up to the pre-validation: both artifacts emptied, run_started,
\* the prompt written, prompt_written.
Start ==
    /\ pc = "start"
    /\ agent_log' = log_agent(log_agent(<<>>, [event |-> "run_started"]),
                              [event |-> "prompt_written"])
    /\ changes_patch' = {}
    /\ pc' = "pre_validation"
    /\ UNCHANGED <<repo, tree0, writes, pre, post, fix_applied, results,
                   exit_status, cmds, calls, toolVars>>

PreValidation ==
    /\ pc = "pre_validation"
    /\ \E o \in TestOutcomes :
         /\ cmds' = Append(cmds, [cmd |-> "pytest", kind |-> o.kind,
                                  errors |-> ErrorCount(o.out), tree |-> repo])
         /\ IF o.kind = "oserror"
            THEN Abort /\ UNCHANGED <<pre, agent_log>>
            ELSE LET v == run_validation("pre_validation", o, 0)
                 IN  /\ pre' = v
                     /\ agent_log' = log_agent(agent_log, ValidationEvent(v))
                     /\ pc' = "apply_patch"
                     /\ UNCHANGED exit_status
    /\ UNCHANGED <<repo, tree0, writes, post, fix_applied, changes_patch,
                   results, calls, toolVars>>

PatchStep ==
    /\ pc = "apply_patch"
    /\ LET r == apply_patch(repo, agent_log)
       IN  IF r.raised # None
           THEN Abort /\ UNCHANGED <<repo, writes, agent_log, fix_applied>>
           ELSE /\ fix_applied' = r.ret
                /\ repo' = r.tree
                /\ writes' = CountWrite(writes, r.wrote)
                /\ agent_log' = r.log
                /\ pc' = "diff"
                /\ UNCHANGED exit_status
    /\ UNCHANGED <<tree0, pre, post, changes_patch, results, cmds, calls,
                   toolVars>>

DiffStep ==
    /\ pc = "diff"
    /\ IF CaptureDiff(fix_applied)
       THEN /\ cmds' = Append(cmds, [cmd |-> "git diff", kind |-> "ran",
                                     errors |-> 0, tree |-> repo])
            /\ changes_patch' = GitDiff(repo)
            /\ agent_log' = log_agent(agent_log,
                   [event |-> "diff_captured", files |-> GitDiff(repo)])
       ELSE /\ agent_log' = log_agent(agent_log,
                   [event |-> "diff_skipped", reason |-> "no_change"])
            /\ UNCHANGED <<cmds, changes_patch>>
    /\ pc' = "post_validation"
    /\ UNCHANGED <<repo, tree0, writes, pre, post, fix_applied, results,
                   exit_status, calls, toolVars>>

PostValidation ==
    /\ pc = "post_validation"
    /\ \E o \in TestOutcomes :
         /\ cmds' = Append(cmds, [cmd |-> "pytest", kind |-> o.kind,
                                  errors |-> ErrorCount(o.out), tree |-> repo])
         /\ IF o.kind = "oserror"
            THEN Abort /\ UNCHANGED <<post, agent_log>>
            ELSE LET v == run_validation("post_validation", o, pre.errors)
                 IN  /\ post' = v
                     /\ agent_log' = log_agent(agent_log, ValidationEvent(v))
                     /\ pc' = "results"
                     /\ UNCHANGED exit_status
    /\ UNCHANGED <<repo, tree0, writes, pre, fix_applied, changes_patch,
                   results, calls, toolVars>>

\* The results file, run_complete, and main() returns: status 0.
WriteResults ==
    /\ pc = "results"
    /\ results' = MakeResults(pre, post, fix_applied)
    /\ agent_log' = log_agent(agent_log, [event |-> "run_complete"])
    /\ pc' = "done"
    /\ exit_status' = 0
    /\ UNCHANGED <<repo, tree0, writes, pre, post, fix_applied,
                   changes_patch, cmds, calls, toolVars>>

Next ==
    \/ Start
    \/ PreValidation
    \/ PatchStep
    \/ DiffStep
    \/ PostValidation
    \/ WriteResults

Spec == Init /\ [][Next]_vars

(***************************************************************************)
(* Properties of a run of main().                                          *)
(***************************************************************************)
\* The verdict a post-validation report states.
Verdict(report) ==
    IF report = "ERRORS CLEARED IN POST-VALIDATION" THEN "CORRECTED"
    ELSE IF report = "NO ERRORS TO CLEAR - TESTS ALREADY PASSING"
    THEN "ALREADY_PASSING"
    ELSE "STILL_FAILING"

\* C2 (as amended): the verdict reported is a function of the two error
\* counts: CORRECTED when pre > 0 and post = 0, ALREADY_PASSING when
\* pre = 0 and post = 0, and STILL_FAILING whenever post > 0, also when
\* pre = 0.
C2_Verdict ==
    post # NoValue =>
        LET v == Verdict(post.report)
        IN  /\ (pre.errors > 0 /\ post.errors = 0) => v = "CORRECTED"
            /\ (pre.errors = 0 /\ post.errors = 0) => v = "ALREADY_PASSING"
            /\ post.errors > 0 => v = "STILL_FAILING"

\* C2 witness: a run that started with no errors and ended with some.
C2_Witness ==
    /\ post # NoValue
    /\ pre.errors = 0 /\ post.errors > 0
    /\ Verdict(post.report) = "STILL_FAILING"

\* C2 (as stated): CORRECTED when pre > 0 and post = 0, STILL_FAILING when
\* pre > 0 and post > 0, ALREADY_PASSING whenever pre = 0, whatever post is.
C2_AsStated ==
    post # NoValue =>
        LET v == Verdict(post.report)
        IN  /\ (pre.errors > 0 /\ post.errors = 0) => v = "CORRECTED"
            /\ (pre.errors > 0 /\ post.errors > 0) => v = "STILL_FAILING"
            /\ pre.errors = 0 => v = "ALREADY_PASSING"

\* No file of the checkout contains "class ImportItem".
NoHeaderAnywhere == \A p \in Paths : ~ContainsHeader(tree0[p])

PostValidationRan ==
    \/ post # NoValue
    \/ \E i \in 1..Len(agent_log) :
          /\ agent_log[i].event = "validation_complete"
          /\ agent_log[i].stage = "post_validation"
    \/ Len(cmds) > 1

\* C3: when no file contains the class header, the patch step raises and
\* the run aborts: the run never gets past the patch step, post-validation
\* is never executed and no results object is written.
C3_FatalOnMissingTarget ==
    NoHeaderAnywhere =>
        /\ pc \notin {"diff", "post_validation", "results", "done"}
        /\ ~PostValidationRan
        /\ results = NoValue
        /\ exit_status # 0

\* C3 witness: pre-validation completed and the patch step aborted the run.
C3_Witness ==
    /\ NoHeaderAnywhere
    /\ pre # NoValue
    /\ pc = "aborted" /\ exit_status = 1

\* C4: a run whose post-validation did not pass (exit code not 0, or an
\* error counted) never ends with exit status 0.
C4_NonZeroExitWhenFailing ==
    (post # NoValue /\ (post.exit_code # 0 \/ post.errors > 0))
        => exit_status # 0

\* C5: a test command that could not be launched is fatal: the run aborts,
\* records no validation result for that stage and goes no further.
C5_LaunchFailureFatal ==
    (\E i \in 1..Len(cmds) : cmds[i].kind = "not_launched")
        => /\ pc = "aborted"
           /\ ~(pre # NoValue /\ ~pre.launched)
           /\ ~(post # NoValue /\ ~post.launched)

EventNames(log) == [i \in 1..Len(log) |-> log[i].event]
IsPrefix(a, b) == Len(a) <= Len(b) /\ a = SubSeq(b, 1, Len(a))

\* The event sequences of a whole run.
RunOrders ==
    {<<"run_started", "prompt_written", "validation_complete", p, d,
       "validation_complete", "run_complete">> :
        p \in {"patch_applied", "patch_skipped"},
        d \in {"diff_captured", "diff_skipped"}}

Pytests == {i \in 1..Len(cmds) : cmds[i].cmd = "pytest"}

\* C6: the steps run in order, each at most once: pre-validation, then the
\* patch step, then post-validation, then the results; the test command has
\* run once on the checkout as it was and once on the tree the patch step
\* left, and post_errors is the count that second execution observed.
C6_StrictOrder ==
    /\ pc # "start" => \E o \in RunOrders : IsPrefix(EventNames(agent_log), o)
    /\ Cardinality(Pytests) <= 2
    /\ \A p \in Paths : writes[p] <= 1
    /\ pc = "done" =>
         /\ Cardinality(Pytests) = 2
         /\ cmds[1].cmd = "pytest" /\ cmds[1].tree = tree0
         /\ cmds[Len(cmds)].cmd = "pytest" /\ cmds[Len(cmds)].tree = repo
         /\ results.pre_errors = cmds[1].errors
         /\ results.post_errors = cmds[Len(cmds)].errors
         /\ agent_log[6].stage = "post_validation"
         /\ agent_log[6].errors = results.post_errors

\* C6 witness: a completed run in which the patch was applied and the two
\* executions counted differently.
C6_Witness ==
    /\ pc = "done"
    /\ results.fix_applied
    /\ results.pre_errors > results.post_errors

\* C8 (as amended): the diff is computed right after the patch step, before
\* post-validation, and only when the patch step reported a change; then
\* the artifact names what the patch step changed.  When it reported none,
\* no diff is computed, diff_skipped is logged and the artifact is empty.
C8_DiffAfterPatch ==
    pc = "done" =>
        IF results.fix_applied
        THEN /\ [i \in 1..Len(cmds) |-> cmds[i].cmd]
                  = <<"pytest", "git diff", "pytest">>
             /\ agent_log[5].event = "diff_captured"
             /\ changes_patch = {p \in Paths : repo[p] # tree0[p]}
             /\ changes_patch # {}
        ELSE /\ [i \in 1..Len(cmds) |-> cmds[i].cmd] = <<"pytest", "pytest">>
             /\ agent_log[5].event = "diff_skipped"
             /\ changes_patch = {}

\* C8 witness: a completed run whose patch step changed nothing.
C8_Witness ==
    /\ pc = "done"
    /\ ~results.fix_applied
    /\ agent_log[5].event = "diff_skipped"

\* C8 (as stated): in every completed run the diff is computed, and after
\* post-validation.
C8_AsStated ==
    pc = "done" =>
        \E i \in 1..Len(cmds) :
            /\ cmds[i].cmd = "git diff"
            /\ \A j \in Pytests : j < i

\* C10: the target file is written at most once in a run, and fix_applied
\* in the results is true exactly when it was: then the file holds the
\* method and differs from what it was at the start; otherwise every file
\* is byte-identical to what it was at the start.
C10_FixAppliedIffWritten ==
    /\ \A p \in Paths : writes[p] <= 1
    /\ Cardinality({p \in Paths : writes[p] > 0}) <= 1
    /\ results # NoValue =>
         /\ results.fix_applied <=> (\E p \in Paths : writes[p] = 1)
         /\ results.fix_applied =>
              \E p \in Paths :
                 /\ writes[p] = 1
                 /\ ContainsMethod(repo[p]) /\ ~ContainsMethod(tree0[p])
                 /\ repo[p] # tree0[p]
                 /\ \A q \in Paths \ {p} : repo[q] = tree0[q]
         /\ ~results.fix_applied => repo = tree0

\* C10 witness: a completed run that wrote the target file.
C10_Witness ==
    /\ results # NoValue
    /\ results.fix_applied
    /\ \E p \in Paths : writes[p] = 1 /\ repo[p] # tree0[p]

(***************************************************************************)
(* SpecPatch: apply_patch called again and again on one repository.        *)
(***************************************************************************)
IdleRun ==
    /\ pc = "idle" /\ pre = NoValue /\ post = NoValue /\ fix_applied = FALSE
    /\ changes_patch = {} /\ results = NoValue /\ exit_status = NotExited
    /\ cmds = <<>>
IdleTools == file_text = <<>> /\ tool_call = NoValue

InitPatch ==
    /\ repo \in Repos(MaxPatchLines)
    /\ tree0 = repo
    /\ writes = [p \in Paths |-> 0]
    /\ agent_log = <<>>
    /\ calls = <<>>
    /\ IdleRun /\ IdleTools

CallApplyPatch ==
    /\ Len(calls) < MaxCalls
    /\ LET r == apply_patch(repo, agent_log)
       IN  /\ repo' = r.tree
           /\ agent_log' = r.log
           /\ writes' = CountWrite(writes, r.wrote)
           /\ calls' = Append(calls,
                  [raised |-> r.raised, ret |-> r.ret,
                   before |-> repo, after |-> r.tree,
                   wrote |-> r.wrote, insert_at |-> r.insert_at,
                   header_at |-> r.header_at,
                   logged |-> SubSeq(r.log, Len(agent_log) + 1, Len(r.log))])
    /\ UNCHANGED <<tree0, runVars, toolVars>>

NextPatch == CallApplyPatch
SpecPatch == InitPatch /\ [][NextPatch]_vars

\* What a call that found the method already there looks like, after the
\* call c before it: it returns False, logs patch_skipped, writes nothing.
ReportsAlreadyPresent(c, d) ==
    /\ d.raised = None /\ d.ret = FALSE
    /\ d.wrote = None
    /\ d.after = c.after
    /\ d.logged = <<[event |-> "patch_skipped", reason |-> "already_present"]>>

Chars == {"a", "b"}

\* old occurs in text at index i (from 1)
OccursAt(text, old, i) ==
    /\ i >= 1 /\ i + Len(old) - 1 <= Len(text)
    /\ SubSeq(text, i, i + Len(old) - 1) = old

\* str.find, from index i: the first index at which old occurs, 0 for none
RECURSIVE FindOld(_, _, _)
FindOld(text, old, i) ==
    IF i + Len(old) - 1 > Len(text) THEN 0
    ELSE IF OccursAt(text, old, i) THEN i
    ELSE FindOld(text, old, i + 1)

\* text.replace(old, new): every occurrence, left to right
RECURSIVE ReplaceEvery(_, _, _)
ReplaceEvery(text, old, new) ==
    LET i == FindOld(text, old, 1)
    IN  IF i = 0 THEN text
        ELSE IF old = <<>>
        THEN IF text = <<>> THEN new
             ELSE new \o <<Head(text)>> \o ReplaceEvery(Tail(text), old, new)
        ELSE SubSeq(text, 1, i - 1) \o new
             \o ReplaceEvery(SubSeq(text, i + Len(old), Len(text)), old, new)

\* text.replace(old, new, 1)
ReplaceFirst(text, old, new) ==
    LET i == FindOld(text, old, 1)
    IN  IF i = 0 THEN text
        ELSE SubSeq(text, 1, i - 1) \o new
             \o SubSeq(text, i + Len(old), Len(text))

InitTools ==
    /\ file_text \in SeqsUpTo(Chars, MaxText)
    /\ tool_call = NoValue
    /\ repo = [p \in Paths |-> <<>>]
    /\ tree0 = repo
    /\ writes = [p \in Paths |-> 0]
    /\ agent_log = <<>>
    /\ calls = <<>>
    /\ IdleRun

\* edit_file(path, old, new); texts longer than MaxText are left out.
edit_file ==
    \E old \in SeqsUpTo(Chars, MaxArg), new \in SeqsUpTo(Chars, MaxArg) :
        /\ Len(file_text) - Len(old) + Len(new) <= MaxText
        /\ IF FindOld(file_text, old, 1) = 0
           THEN /\ tool_call' = [raised |-> "Old content not found",
                                 before |-> file_text, old |-> old, new |-> new]
                /\ UNCHANGED file_text
           ELSE /\ file_text' = ReplaceFirst(file_text, old, new)
                /\ tool_call' = [raised |-> None,
                                 before |-> file_text, old |-> old, new |-> new]
        /\ UNCHANGED <<repo, tree0, writes, agent_log, calls, runVars>>

NextTools == edit_file
SpecTools == InitTools /\ [][NextTools]_vars

\* C9: edit_file replaces the first occurrence of old by new and nothing
\* else: what precedes it and what follows it (later occurrences of old
\* included) is unchanged; when old does not occur, it raises and the file
\* is unchanged.
C9_EditFileFrame ==
    tool_call # NoValue =>
        LET b == tool_call.before
            o == tool_call.old
            n == tool_call.new
            occ == {i \in 1..(Len(b) + 1) : OccursAt(b, o, i)}
        IN  IF tool_call.raised # None
            THEN occ = {} /\ file_text = b
            ELSE \E i \in occ :
                    /\ \A j \in occ : i <= j
                    /\ Len(file_text) = Len(b) - Len(o) + Len(n)
                    /\ SubSeq(file_text, 1, i - 1) = SubSeq(b, 1, i - 1)
                    /\ SubSeq(file_text, i, i + Len(n) - 1) = n
                    /\ SubSeq(file_text, i + Len(n), Len(file_text))
                         = SubSeq(b, i + Len(o), Len(b))

\* C9 witness: old occurred twice and only its first occurrence was replaced.
C9_Witness ==
    /\ tool_call # NoValue
    /\ tool_call.raised = None
    /\ tool_call.old = <<"a">> /\ tool_call.new = <<"b">>
    /\ tool_call.before = <<"b", "a", "b", "a">>
    /\ file_text = <<"b", "b", "b", "a">>

\* Indentation of a line has returned to the level of the class: the line
\* starts at column 0.
AtClassLevel(line) == Len(line) > 0 /\ line[1] \in {"H", "T"}

\* The boundary the insertion point is specified by: the first line after
\* the header that is blank or back at the indentation of the class.
RECURSIVE BodyEnd(_, _)
BodyEnd(lines, k) ==
    IF k < Len(lines) /\ strip(lines[k + 1]) # <<>> /\ ~AtClassLevel(lines[k + 1])
    THEN BodyEnd(lines, k + 1)
    ELSE k

\* C7: apply_patch inserts the method immediately before the first line
\* after the class header that is blank or whose indentation is back at the
\* level of the class, so never after a line outside the class body.
C7_InsertionPoint ==
    \A k \in 1..Len(calls) :
        (calls[k].raised = None /\ calls[k].ret)
            => LET lines == splitlines(calls[k].before[calls[k].wrote])
               IN  calls[k].insert_at = BodyEnd(lines, calls[k].header_at + 1)
====
